---- MODULE Spec2Model ----
(***************************************************************************)
(* Model of the fuzzy discretisation and fuzzy-rule inference core:        *)
(*   flore/fuzzy/_base.py   fuzzy_partitioning, get_fuzzy_triangle         *)
(*   teacher/tree/rule.py   Rule.matching, weighted_vote,                  *)
(*                          map_rule_variables                             *)
(*   teacher/tree/_voting.py _aggregated_vote, _maximum_matching           *)
(*                                                                         *)
(* Numbers are integers.  Membership degrees produced by trimf are exact   *)
(* fractions <<numerator, denominator>>; degrees and weights given as      *)
(* inputs to the rule functions are integers in a fixed unit, so that      *)
(* products, sums and comparisons are exact.                               *)
(***************************************************************************)
EXTENDS Integers, Sequences, FiniteSets, TLC

\* ------------------------------------------------------------------------
\* Bounds of the explored inputs
\* ------------------------------------------------------------------------
MaxLen == 4
\* sample values range over 0..MaxVal
MaxVal == 3
\* get_fuzzy_triangle: number of (label, peak) pairs and length of the value array
MaxPeaks == 3
MaxArr == 2
\* Rule: antecedent length, degrees 0..MaxDeg (in units of 1/MaxDeg), weights
\* 0..MaxWeight, number of rules given to weighted_vote
MaxAnte == 2
MaxDeg == 2
MaxWeight == 2
MaxRules == 3
\* _voting: number of leaves, weights (0 - 1)..MaxLeafWeight
MaxLeaves == 2
MaxLeafWeight == 1
\* map_rule_variables: fuzzy sets are intervals within 0..MaxUniverse
MaxUniverse == 2

Classes == {"A", "B"}

VARIABLES
    variable,           \* fuzzy_partitioning: the sample given to the top-level call
    class_variable,     \* fuzzy_partitioning: its parallel class labels
    stack,              \* fuzzy_partitioning: call stack, innermost frame last
    result,             \* fuzzy_partitioning: outcome of the top-level call
    divisions,          \* get_fuzzy_triangle: the (label, peak) pairs
    fuzz_dict,          \* get_fuzzy_triangle: label -> membership array, <<>> before the call
    rule,               \* Rule.matching / map_rule_variables: the rule (self)
    instance_membership,\* Rule.matching / weighted_vote: {feature: {value: degree}}
    matching_result,    \* Rule.matching: outcome of the call
    rule_list,          \* Rule.weighted_vote: the rules, in order
    vote_result,        \* Rule.weighted_vote: outcome of the call
    origin_fuzzy_variables, \* map_rule_variables: the original fuzzy variables
    dest_fuzzy_variables,   \* map_rule_variables: the destination fuzzy variables
    map_result,         \* map_rule_variables: outcome of the call
    all_classes,        \* _voting: the leaves, (class -> weight, activation) pairs
    agg_vote,           \* _aggregated_vote: outcome of the call
    max_match,          \* _maximum_matching: outcome of the call
    triangle,           \* fuzzy_entropy: the membership degrees of one fuzzy set
    fe                  \* fuzzy_entropy: outcome of the call

partition_vars == <<variable, class_variable, stack, result>>

triangle_vars == <<divisions, fuzz_dict>>

rule_vars == <<rule, instance_membership, matching_result, rule_list, vote_result>>

map_vars == <<origin_fuzzy_variables, dest_fuzzy_variables, map_result>>

voting_vars == <<all_classes, agg_vote, max_match>>

entropy_vars == <<triangle, fe>>

vars == <<partition_vars, triangle_vars, rule_vars, map_vars, voting_vars, entropy_vars>>

\* ------------------------------------------------------------------------
\* Generic helpers
\* ------------------------------------------------------------------------
SeqsUpTo(S, n) == UNION {[1..k -> S] : k \in 0..n}

Range(s) == {s[i] : i \in DOMAIN s}

SetMax(S) == CHOOSE x \in S : \A y \in S : y <= x

SetMin(S) == CHOOSE x \in S : \A y \in S : x <= y

\* numpy ndarray.max() / pandas Series.min() of a non-empty sample
ArrayMax(s) == SetMax(Range(s))

ArrayMin(s) == SetMin(Range(s))

RECURSIVE SortedSeqOf(_)
SortedSeqOf(S) ==
    IF S = {} THEN <<>>
    ELSE LET m == SetMin(S) IN <<m>> \o SortedSeqOf(S \ {m})

\* np.unique(points).tolist(): the distinct elements, ascending
np_unique(points) == SortedSeqOf(Range(points))

\* zip(variable, class_variable)
Zip(v, c) == [i \in 1..Len(v) |-> <<v[i], c[i]>>]

\* ------------------------------------------------------------------------
\* fuzzy_partitioning (flore/fuzzy/_base.py:112-168) as a stack machine.
\* A frame is one activation of the function.
\* ------------------------------------------------------------------------
NoResult == [status |-> "none", value |-> <<>>]

Returned(v) == [status |-> "returned", value |-> v]

\* an exception that propagates out of the top-level call
Raised == [status |-> "ValueError", value |-> <<>>]

NewFrame(v, c, mp) ==
    [variable |-> v, class_variable |-> c, min_point |-> mp,
     max_point |-> 0, best_point |-> 0, has_best |-> FALSE,
     left |-> <<>>, right |-> <<>>,
     left_points |-> <<>>, right_points |-> <<>>,
     pc |-> "search"]

Top == stack[Len(stack)]

SetTop(f) == [stack EXCEPT ![Len(stack)] = f]

\* positions of the sample that the loop of line 117-118 evaluates
Candidates(v, mp, maxp) == {i \in DOMAIN v : v[i] /= mp /\ v[i] /= maxp}

\* np.unique(class_variable) has one element
SingleClass(c) == Cardinality(Range(c)) = 1

\* [(p, c) for p, c in zip(variable, class_variable) if p <= best_point]
LeftOf(v, c, bp) == SelectSeq(Zip(v, c), LAMBDA pc : pc[1] <= bp)

\* the right filter with >= instead of >
RightOf_Geq(v, c, bp) == SelectSeq(Zip(v, c), LAMBDA pc : pc[1] >= bp)

\* [(p, c) for p, c in zip(variable, class_variable) if p > best_point]
RightOf(v, c, bp) == SelectSeq(Zip(v, c), LAMBDA pc : pc[1] > bp)

\* zip(*left): the values and the classes of a list of pairs
Firsts(pairs) == [i \in 1..Len(pairs) |-> pairs[i][1]]

Seconds(pairs) == [i \in 1..Len(pairs) |-> pairs[i][2]]

\* get_fuzzy_points_entropy, line 108: the top-level call, min_point = column minimum
FP_Call ==
    /\ stack = <<>>
    /\ result = NoResult
    /\ stack' = <<NewFrame(variable, class_variable, ArrayMin(variable))>>
    /\ UNCHANGED <<variable, class_variable, result>>
    /\ UNCHANGED <<triangle_vars, rule_vars, map_vars, voting_vars>>
    /\ UNCHANGED entropy_vars

\* lines 113-134: scan of the candidate points, then the two filters.
\* best_wef stays inf (has_best = FALSE, best_point = 0) when no point is a
\* candidate.  Every candidate's weighted fuzzy entropy is finite, so the first
\* candidate always replaces inf.  In a single-class sample every fuzzy entropy
\* is 0, `wef < best_wef` is then false for every later candidate and the first
\* candidate in sample order is kept; otherwise the minimiser depends on
\* real-valued entropies and is left open among the candidates.
FP_Search ==
    /\ stack /= <<>>
    /\ Top.pc = "search"
    /\ LET f    == Top
           maxp == ArrayMax(f.variable)
           cand == Candidates(f.variable, f.min_point, maxp)
       IN \E bp \in (IF cand = {} THEN {0}
                     ELSE IF SingleClass(f.class_variable)
                          THEN {f.variable[SetMin(cand)]}
                          ELSE {f.variable[i] : i \in cand}) :
             stack' = SetTop([f EXCEPT
                         !.max_point = maxp,
                         !.best_point = bp,
                         !.has_best = (cand /= {}),
                         !.left = LeftOf(f.variable, f.class_variable, bp),
                         !.right = RightOf(f.variable, f.class_variable, bp),
                         !.pc = "threshold"])
    /\ UNCHANGED <<variable, class_variable, result>>
    /\ UNCHANGED <<triangle_vars, rule_vars, map_vars, voting_vars>>
    /\ UNCHANGED entropy_vars

\* The outcomes of `not f_gain < threshold` (line 156) that the arithmetic of
\* lines 135-149 allows for a sample of n >= 2 elements:
\*   no candidate: best_wef = inf, f_gain = -inf, threshold finite: rejected;
\*   single class: every fuzzy entropy is 0, so f_gain = 0, delta = log2(3-2) = 0
\*     and threshold = log2(n-1)/n: accepted exactly when n = 2;
\*   otherwise the comparison of real-valued entropies is left open.
AcceptOutcomes(f) ==
    IF ~f.has_best THEN {FALSE}
    ELSE IF SingleClass(f.class_variable) THEN {Len(f.variable) <= 2}
    ELSE BOOLEAN

\* lines 135-156: global entropy, gain, threshold and the accept test.
\* log2(cardinality - 1) raises ValueError (math domain error) for a sample of
\* one element; the exception is not caught anywhere and ends the whole call.
FP_Threshold ==
    /\ stack /= <<>>
    /\ Top.pc = "threshold"
    /\ IF Len(Top.variable) - 1 = 0
       THEN /\ stack' = <<>>
            /\ result' = Raised
       ELSE /\ \E accept \in AcceptOutcomes(Top) :
                 stack' = SetTop([Top EXCEPT !.pc = IF accept THEN "accept" ELSE "reject"])
            /\ UNCHANGED result
    /\ UNCHANGED <<variable, class_variable>>
    /\ UNCHANGED <<triangle_vars, rule_vars, map_vars, voting_vars>>
    /\ UNCHANGED entropy_vars

\* `return value`: hand the value to the caller's frame, or end the top-level call
ReturnValue(value) ==
    IF Len(stack) = 1
    THEN /\ stack' = <<>>
         /\ result' = Returned(value)
    ELSE LET caller == stack[Len(stack) - 1]
             rest   == SubSeq(stack, 1, Len(stack) - 1)
         IN /\ stack' = [rest EXCEPT ![Len(rest)] =
                            IF caller.pc = "waitleft"
                            THEN [caller EXCEPT !.left_points = value, !.pc = "right"]
                            ELSE [caller EXCEPT !.right_points = value, !.pc = "combine"]]
            /\ UNCHANGED result

\* line 168: return [min_point, max_point]
FP_Reject ==
    /\ stack /= <<>>
    /\ Top.pc = "reject"
    /\ ReturnValue(<<Top.min_point, Top.max_point>>)
    /\ UNCHANGED <<variable, class_variable>>
    /\ UNCHANGED <<triangle_vars, rule_vars, map_vars, voting_vars>>
    /\ UNCHANGED entropy_vars

\* lines 157-160: zip(*left), zip(*right) raise ValueError on an empty list
FP_Unzip ==
    /\ stack /= <<>>
    /\ Top.pc = "accept"
    /\ IF Top.left = <<>> \/ Top.right = <<>>
       THEN /\ stack' = <<>>
            /\ result' = Raised
       ELSE /\ stack' = SetTop([Top EXCEPT !.left_points = <<>>,
                                           !.right_points = <<>>,
                                           !.pc = "left"])
            /\ UNCHANGED result
    /\ UNCHANGED <<variable, class_variable>>
    /\ UNCHANGED <<triangle_vars, rule_vars, map_vars, voting_vars>>
    /\ UNCHANGED entropy_vars

\* lines 161-162: recurse on the left part, min_point unchanged
FP_Left ==
    /\ stack /= <<>>
    /\ Top.pc = "left"
    /\ IF Len(Firsts(Top.left)) > 1
       THEN stack' = Append(SetTop([Top EXCEPT !.pc = "waitleft"]),
                            NewFrame(Firsts(Top.left), Seconds(Top.left), Top.min_point))
       ELSE stack' = SetTop([Top EXCEPT !.pc = "right"])
    /\ UNCHANGED <<variable, class_variable, result>>
    /\ UNCHANGED <<triangle_vars, rule_vars, map_vars, voting_vars>>
    /\ UNCHANGED entropy_vars

\* lines 163-164: recurse on the right part, min_point = best_point
FP_Right ==
    /\ stack /= <<>>
    /\ Top.pc = "right"
    /\ IF Len(Firsts(Top.right)) > 1
       THEN stack' = Append(SetTop([Top EXCEPT !.pc = "waitright"]),
                            NewFrame(Firsts(Top.right), Seconds(Top.right), Top.best_point))
       ELSE stack' = SetTop([Top EXCEPT !.pc = "combine"])
    /\ UNCHANGED <<variable, class_variable, result>>
    /\ UNCHANGED <<triangle_vars, rule_vars, map_vars, voting_vars>>
    /\ UNCHANGED entropy_vars

\* lines 165-166: points = left_points + right_points; return np.unique(points).tolist()
FP_Combine ==
    /\ stack /= <<>>
    /\ Top.pc = "combine"
    /\ ReturnValue(np_unique(Top.left_points \o Top.right_points))
    /\ UNCHANGED <<variable, class_variable>>
    /\ UNCHANGED <<triangle_vars, rule_vars, map_vars, voting_vars>>
    /\ UNCHANGED entropy_vars

\* ------------------------------------------------------------------------
\* get_fuzzy_triangle (flore/fuzzy/_base.py:224-266)
\* A membership degree is an exact fraction <<numerator, denominator>>,
\* denominator > 0.  A label is the position of its pair in divisions, so
\* labels are distinct and the dictionary fuzz_dict is a sequence.
\* ------------------------------------------------------------------------
Frac(n, d) == <<n, d>>

FracAdd(p, q) == <<p[1] * q[2] + q[1] * p[2], p[2] * q[2]>>

FracEq(p, q) == p[1] * q[2] = q[1] * p[2]

FracLeq(p, q) == p[1] * q[2] <= q[1] * p[2]

Zero == Frac(0, 1)

One == Frac(1, 1)

\* trimf without the final `y[x == b] = 1`
trimf_at_NoPeak(v, a, b, c) ==
    IF b /= c /\ b < v /\ v < c THEN Frac(c - v, c - b)
    ELSE IF a /= b /\ a < v /\ v < b THEN Frac(v - a, b - a)
    ELSE Zero

\* trimf whose half triangles (a = b, b = c) extend with degree 1 beyond the peak
trimf_at_OpenEnded(v, a, b, c) ==
    IF v = b \/ (a = b /\ v < b) \/ (b = c /\ v > b) THEN One
    ELSE IF b /= c /\ b < v /\ v < c THEN Frac(c - v, c - b)
    ELSE IF a /= b /\ a < v /\ v < b THEN Frac(v - a, b - a)
    ELSE Zero

\* skfuzzy trimf(x, [a, b, c]) at one element v of x, for a <= b <= c:
\* y = 0; left side (a /= b): a < v < b gets (v-a)/(b-a); right side (b /= c):
\* b < v < c gets (c-v)/(c-b); v = b gets 1.
trimf_at(v, a, b, c) ==
    IF v = b THEN One
    ELSE IF b /= c /\ b < v /\ v < c THEN Frac(c - v, c - b)
    ELSE IF a /= b /\ a < v /\ v < b THEN Frac(v - a, b - a)
    ELSE Zero

trimf(x, a, b, c) == [i \in DOMAIN x |-> trimf_at(x[i], a, b, c)]

Peak(divs, i) == divs[i][2]

\* lines 246-255: first half triangle, the interior triangles, last half
\* triangle; a later assignment to the same label replaces an earlier one
\* (for two pairs the last half triangle is label 2).
get_fuzzy_triangle(x, divs) ==
    LET n == Len(divs)
    IN [l \in 1..n |->
          IF l = n THEN trimf(x, Peak(divs, n - 1), Peak(divs, n), Peak(divs, n))
          ELSE IF l = 1 THEN trimf(x, Peak(divs, 1), Peak(divs, 1), Peak(divs, 2))
          ELSE trimf(x, Peak(divs, l - 1), Peak(divs, l), Peak(divs, l + 1))]

GetFuzzyTriangle ==
    /\ fuzz_dict = <<>>
    /\ fuzz_dict' = get_fuzzy_triangle(variable, divisions)
    /\ UNCHANGED <<divisions, partition_vars, rule_vars, map_vars, voting_vars>>
    /\ UNCHANGED entropy_vars

\* ------------------------------------------------------------------------
\* Rule (teacher/tree/rule.py:13-80): matching and weighted_vote.
\* A rule is [antecedent, consequent, weight]; the antecedent is a sequence
\* of <<feature, value>> pairs.  instance_membership is a function from the
\* features it has to functions from the values they have to degrees.
\* ------------------------------------------------------------------------
Features == {"x", "y"}

Values == {"lo", "hi"}

Degrees == 0..MaxDeg

Weights == 0..MaxWeight

Pairs == Features \X Values

Antecedents == SeqsUpTo(Pairs, MaxAnte)

\* Rule.__init__, lines 14-24
Rule(antecedent, consequent, weight) ==
    [antecedent |-> antecedent, consequent |-> consequent, weight |-> weight]

Rules == {Rule(a, c, w) : a \in Antecedents, c \in Classes, w \in Weights}

NoRule == Rule(<<>>, "", 0)

\* {feature: {value: degree}} over any subset of the features and values
PartialFunctions(D, R) == UNION {[S -> R] : S \in SUBSET D}

InstanceMemberships == PartialFunctions(Features, PartialFunctions(Values, Degrees))

NoMatching == [status |-> "none", value |-> 0]

NoVote == [status |-> "none", value |-> ""]

\* instance_membership[feature][value] does not raise KeyError
HasKey(im, pair) == pair[1] \in DOMAIN im /\ pair[2] \in DOMAIN im[pair[1]]

\* min(list): ValueError on an empty list
py_min(degrees) ==
    IF degrees = <<>> THEN [status |-> "ValueError", value |-> 0]
    ELSE [status |-> "ok", value |-> SetMin(Range(degrees))]

\* matching whose handler covers an absent feature only
matching_FeatureOnly(r, im) ==
    IF \E i \in DOMAIN r.antecedent : r.antecedent[i][1] \notin DOMAIN im
    THEN [status |-> "ok", value |-> 0]
    ELSE IF \E i \in DOMAIN r.antecedent : ~HasKey(im, r.antecedent[i])
    THEN [status |-> "KeyError", value |-> 0]
    ELSE py_min([i \in DOMAIN r.antecedent |->
                    im[r.antecedent[i][1]][r.antecedent[i][2]]])

\* matching that returns the degree of the first pair instead of the t-norm
matching_First(r, im) ==
    IF \E i \in DOMAIN r.antecedent : ~HasKey(im, r.antecedent[i])
    THEN [status |-> "ok", value |-> 0]
    ELSE IF r.antecedent = <<>> THEN [status |-> "ValueError", value |-> 0]
    ELSE [status |-> "ok", value |-> im[r.antecedent[1][1]][r.antecedent[1][2]]]

\* lines 52-55 with t_norm = min: the list comprehension raises KeyError at
\* the first pair that is not in instance_membership, and the handler returns
\* 0; otherwise t_norm is applied to the list of degrees (an exception of
\* t_norm other than KeyError propagates)
matching(r, im) ==
    IF \E i \in DOMAIN r.antecedent : ~HasKey(im, r.antecedent[i])
    THEN [status |-> "ok", value |-> 0]
    ELSE py_min([i \in DOMAIN r.antecedent |->
                    im[r.antecedent[i][1]][r.antecedent[i][2]]])

Matching ==
    /\ matching_result = NoMatching
    /\ matching_result' = matching(rule, instance_membership)
    /\ UNCHANGED <<rule, instance_membership, rule_list, vote_result>>
    /\ UNCHANGED <<partition_vars, triangle_vars, map_vars, voting_vars>>
    /\ UNCHANGED entropy_vars

\* position of key k in the insertion-ordered keys of a dict, 0 when absent
KeyIndex(keys, k) ==
    IF \E i \in DOMAIN keys : keys[i] = k
    THEN CHOOSE i \in DOMAIN keys : keys[i] = k
    ELSE 0

RECURSIVE conse_dict(_, _, _)
\* lines 76-79 after the first n rules: the defaultdict as its keys in
\* insertion order and their sums; AD = rule.matching(...) * rule.weight
conse_dict(rules, im, n) ==
    IF n = 0 THEN [keys |-> <<>>, sums |-> <<>>]
    ELSE LET d  == conse_dict(rules, im, n - 1)
             AD == matching(rules[n], im).value * rules[n].weight
             k  == KeyIndex(d.keys, rules[n].consequent)
         IN IF k = 0
            THEN [keys |-> Append(d.keys, rules[n].consequent),
                  sums |-> Append(d.sums, 0 + AD)]
            ELSE [keys |-> d.keys, sums |-> [d.sums EXCEPT ![k] = @ + AD]]

\* max that keeps the last of several maximal keys
py_max_key_Last(d) ==
    IF d.keys = <<>> THEN [status |-> "ValueError", value |-> ""]
    ELSE LET best == CHOOSE i \in DOMAIN d.keys :
                        /\ \A j \in DOMAIN d.keys : d.sums[j] <= d.sums[i]
                        /\ \A j \in (i + 1)..Len(d.keys) : d.sums[j] < d.sums[i]
         IN [status |-> "ok", value |-> d.keys[best]]

\* max(conse_dict, key=...): the first key, in iteration order, whose sum no
\* other key exceeds; ValueError on an empty dict
py_max_key(d) ==
    IF d.keys = <<>> THEN [status |-> "ValueError", value |-> ""]
    ELSE LET best == CHOOSE i \in DOMAIN d.keys :
                        /\ \A j \in DOMAIN d.keys : d.sums[j] <= d.sums[i]
                        /\ \A j \in 1..(i - 1) : d.sums[j] < d.sums[i]
         IN [status |-> "ok", value |-> d.keys[best]]

\* lines 76-80; an exception raised by matching (empty antecedent) is not
\* caught and ends the call
weighted_vote(rules, im) ==
    IF \E i \in DOMAIN rules : matching(rules[i], im).status = "ValueError"
    THEN [status |-> "ValueError", value |-> ""]
    ELSE py_max_key(conse_dict(rules, im, Len(rules)))

WeightedVote ==
    /\ rule_list /= <<>>
    /\ vote_result = NoVote
    /\ vote_result' = weighted_vote(rule_list, instance_membership)
    /\ UNCHANGED <<rule, instance_membership, matching_result, rule_list>>
    /\ UNCHANGED <<partition_vars, triangle_vars, map_vars, voting_vars>>
    /\ UNCHANGED entropy_vars

\* ------------------------------------------------------------------------
\* _aggregated_vote and _maximum_matching (teacher/tree/_voting.py:5-18).
\* A leaf is <<class_weight_mapping, leaf_activation_weight>>; the returned
\* defaultdict is the function from its keys to their values.
\* ------------------------------------------------------------------------
LeafWeights == (0 - 1)..MaxLeafWeight

Leaves == PartialFunctions(Classes, LeafWeights) \X LeafWeights

NotCalled == [done |-> FALSE, dict |-> <<>>]

Called(d) == [done |-> TRUE, dict |-> d]

\* defaultdict(lambda: 0)[key]
Get0(d, key) == IF key \in DOMAIN d THEN d[key] ELSE 0

Maximum(a, b) == IF a >= b THEN a ELSE b

\* the loop body without the accumulation: the last leaf's product is kept
AggLeaf_Overwrite(d, leaf) ==
    [key \in DOMAIN d \cup DOMAIN leaf[1] |->
        IF key \in DOMAIN leaf[1] THEN leaf[1][key] * leaf[2]
        ELSE d[key]]

\* the body of the loop `for key in leaf[0]` applied to a whole leaf
AggLeaf(d, leaf) ==
    [key \in DOMAIN d \cup DOMAIN leaf[1] |->
        IF key \in DOMAIN leaf[1] THEN Get0(d, key) + leaf[1][key] * leaf[2]
        ELSE d[key]]

RECURSIVE agg_vote_after(_, _)
\* lines 6-10 after the first n leaves
agg_vote_after(leaves, n) ==
    IF n = 0 THEN <<>>
    ELSE AggLeaf(agg_vote_after(leaves, n - 1), leaves[n])

_aggregated_vote(leaves) == agg_vote_after(leaves, Len(leaves))

\* the loop body with the sum of _aggregated_vote instead of np.maximum
MaxLeaf_Sum(d, leaf) ==
    [key \in DOMAIN d \cup DOMAIN leaf[1] |->
        IF key \in DOMAIN leaf[1] THEN Get0(d, key) + leaf[1][key] * leaf[2]
        ELSE d[key]]

\* the body of the loop `for key in leaf[0]`: np.maximum with the stored value
MaxLeaf(d, leaf) ==
    [key \in DOMAIN d \cup DOMAIN leaf[1] |->
        IF key \in DOMAIN leaf[1] THEN Maximum(Get0(d, key), leaf[1][key] * leaf[2])
        ELSE d[key]]

RECURSIVE max_match_after(_, _)
\* lines 14-18 after the first n leaves
max_match_after(leaves, n) ==
    IF n = 0 THEN <<>>
    ELSE MaxLeaf(max_match_after(leaves, n - 1), leaves[n])

_maximum_matching(leaves) == max_match_after(leaves, Len(leaves))

AggregatedVote ==
    /\ ~agg_vote.done
    /\ agg_vote' = Called(_aggregated_vote(all_classes))
    /\ UNCHANGED <<all_classes, max_match>>
    /\ UNCHANGED <<partition_vars, triangle_vars, rule_vars, map_vars>>
    /\ UNCHANGED entropy_vars

MaximumMatching ==
    /\ ~max_match.done
    /\ max_match' = Called(_maximum_matching(all_classes))
    /\ UNCHANGED <<all_classes, agg_vote>>
    /\ UNCHANGED <<partition_vars, triangle_vars, rule_vars, map_vars>>
    /\ UNCHANGED entropy_vars

\* ------------------------------------------------------------------------
\* Rule.map_rule_variables (teacher/tree/rule.py:82-125).
\* A fuzzy variable is [name, fuzzy_sets]; a fuzzy set is [name, lo, hi], a
\* set supported on the interval lo..hi of the universe.
\* ------------------------------------------------------------------------
\* the fuzzy-set collections a variable may have: none, one set, or a "lo"
\* set followed by a "hi" set that starts where "lo" ends
FuzzySetLists ==
    {<<>>}
    \cup {<<[name |-> "lo", lo |-> 0, hi |-> MaxUniverse]>>}
    \cup {<<[name |-> "lo", lo |-> 0, hi |-> m], [name |-> "hi", lo |-> m, hi |-> MaxUniverse]>> :
             m \in 1..(MaxUniverse - 1)}

FuzzyVariable(name, fuzzy_sets) == [name |-> name, fuzzy_sets |-> fuzzy_sets]

FuzzyVariables == {FuzzyVariable(n, fs) : n \in Features, fs \in FuzzySetLists}

\* lists of fuzzy variables with distinct names
FuzzyVariableLists ==
    {l \in SeqsUpTo(FuzzyVariables, Cardinality(Features)) :
        \A i, j \in DOMAIN l : i /= j => l[i].name /= l[j].name}

Names(fvs) == {fvs[i].name : i \in DOMAIN fvs}

\* {fv.name: fv.fuzzy_sets for fv in fvs}: the last variable of a name wins
DictOf(fvs) ==
    [n \in Names(fvs) |->
        fvs[SetMax({i \in DOMAIN fvs : fvs[i].name = n})].fuzzy_sets]

\* FuzzySet.intersection: the overlap of the two supports
intersection(fs, other) ==
    LET l == IF fs.lo >= other.lo THEN fs.lo ELSE other.lo
        h == IF fs.hi <= other.hi THEN fs.hi ELSE other.hi
    IN IF h >= l THEN h - l ELSE 0

NoMapping == [status |-> "none", rule |-> NoRule]

MapError(e) == [status |-> e, rule |-> NoRule]

\* origin_fuzzy_sets[value] does not raise KeyError
HasSet(sets, value) == \E i \in DOMAIN sets : sets[i].name = value

\* {fs.name: fs for fs in origin_feat}[value]: the last set of that name
SetNamed(sets, value) == sets[SetMax({i \in DOMAIN sets : sets[i].name = value})]

\* the first destination set, whatever its intersection
BestDest_First(dest_feat, origin_fs) == dest_feat[1]

\* max(dest_feat, key=lambda fs: fs.intersection(origin_fs)): first maximal set
BestDest(dest_feat, origin_fs) ==
    LET best == CHOOSE i \in DOMAIN dest_feat :
                   /\ \A j \in DOMAIN dest_feat :
                         intersection(dest_feat[j], origin_fs) <= intersection(dest_feat[i], origin_fs)
                   /\ \A j \in 1..(i - 1) :
                         intersection(dest_feat[j], origin_fs) < intersection(dest_feat[i], origin_fs)
    IN dest_feat[best]

\* lines 115-123 for one pair: "ok", or the exception it raises
PairStatus(pair, origin_dict, dest_dict) ==
    IF pair[1] \notin DOMAIN origin_dict THEN "KeyError"
    ELSE IF ~HasSet(origin_dict[pair[1]], pair[2]) THEN "KeyError"
    ELSE IF dest_dict[pair[1]] = <<>> THEN "ValueError_max"
    ELSE "ok"

\* the universes test only asks that every origin name is a destination name
UniversesDiffer_Subset(origin_dict, dest_dict) ==
    ~(DOMAIN origin_dict \subseteq DOMAIN dest_dict)

\* line 111: origin_dict.keys() != dest_dict.keys()
UniversesDiffer(origin_dict, dest_dict) == DOMAIN origin_dict /= DOMAIN dest_dict

\* lines 108-125
map_rule_variables(r, origin, dest) ==
    LET origin_dict == DictOf(origin)
        dest_dict   == DictOf(dest)
        ante        == r.antecedent
        failing     == {i \in DOMAIN ante : PairStatus(ante[i], origin_dict, dest_dict) /= "ok"}
    IN IF UniversesDiffer(origin_dict, dest_dict)
       THEN MapError("ValueError_universes")
       ELSE IF failing /= {}
       THEN MapError(PairStatus(ante[SetMin(failing)], origin_dict, dest_dict))
       ELSE [status |-> "ok",
             rule |-> Rule([i \in DOMAIN ante |->
                              <<ante[i][1],
                                BestDest(dest_dict[ante[i][1]],
                                         SetNamed(origin_dict[ante[i][1]], ante[i][2])).name>>],
                           r.consequent, r.weight)]

MapRuleVariables ==
    /\ map_result = NoMapping
    /\ map_result' = map_rule_variables(rule, origin_fuzzy_variables, dest_fuzzy_variables)
    /\ UNCHANGED <<origin_fuzzy_variables, dest_fuzzy_variables, rule_vars>>
    /\ UNCHANGED <<partition_vars, triangle_vars, voting_vars>>
    /\ UNCHANGED entropy_vars

\* ------------------------------------------------------------------------
\* fuzzy_entropy (flore/fuzzy/_base.py:205-221).
\* Degrees are integers in units of 1/MaxDeg.  log2 is exact on the ratios
\* 1/2^k only; an entropy with a term at another ratio is not a rational
\* number and is recorded as inexact.
\* ------------------------------------------------------------------------
NoEntropy == [status |-> "none", exact |-> TRUE, value |-> <<0, 1>>]

\* triangle.sum()
ArraySum(t) ==
    LET Sum[n \in 0..Len(t)] == IF n = 0 THEN 0 ELSE Sum[n - 1] + t[n]
    IN Sum[Len(t)]

\* lines 208-211: the sum of the degrees of the elements of class `value`
class_fuzzy_cardinality(t, c, value) ==
    LET Sum[n \in 0..Len(t)] ==
            IF n = 0 THEN 0
            ELSE Sum[n - 1] + (IF c[n] = value THEN t[n] ELSE 0)
    IN Sum[Len(t)]

\* 2^k
Pow2(k) == LET P[n \in 0..k] == IF n = 0 THEN 1 ELSE 2 * P[n - 1] IN P[k]

\* the ratio n/d, 0 < n <= d, is 1/2^k for some k
IsDyadic(n, d) == \E k \in 0..d : n * Pow2(k) = d

\* -log2(n/d) for a ratio n/d = 1/2^k
NegLog2(n, d) == CHOOSE k \in 0..d : n * Pow2(k) = d

\* the term without its factor ratio: -log2(ratio)
EntropyTerm_NoRatio(cfc, fuzzy_cardinality) ==
    IF IsDyadic(cfc, fuzzy_cardinality)
    THEN [exact |-> TRUE, value |-> Frac(NegLog2(cfc, fuzzy_cardinality), 1)]
    ELSE [exact |-> FALSE, value |-> Zero]

\* lines 213-219: -ratio * log2(ratio) with ratio = cfc / fuzzy_cardinality
EntropyTerm(cfc, fuzzy_cardinality) ==
    IF IsDyadic(cfc, fuzzy_cardinality)
    THEN [exact |-> TRUE, value |-> Frac(cfc * NegLog2(cfc, fuzzy_cardinality), fuzzy_cardinality)]
    ELSE [exact |-> FALSE, value |-> Zero]

RECURSIVE fe_over(_, _, _)
\* the loop of line 207 over the class values S still to visit
fe_over(t, c, S) ==
    IF S = {} THEN [exact |-> TRUE, value |-> Zero]
    ELSE LET value == CHOOSE v \in S : TRUE
             rest  == fe_over(t, c, S \ {value})
             cfc   == class_fuzzy_cardinality(t, c, value)
         IN IF cfc > 0
            THEN LET term == EntropyTerm(cfc, ArraySum(t))
                 IN [exact |-> rest.exact /\ term.exact,
                     value |-> FracAdd(rest.value, term.value)]
            ELSE rest

\* lines 205-221
fuzzy_entropy(t, c) ==
    LET r == fe_over(t, c, Range(c))
    IN [status |-> "returned", exact |-> r.exact,
        value |-> IF r.exact THEN r.value ELSE Zero]

FuzzyEntropy ==
    /\ fe = NoEntropy
    /\ fe' = fuzzy_entropy(triangle, class_variable)
    /\ UNCHANGED <<triangle, partition_vars, triangle_vars, rule_vars, map_vars, voting_vars>>

\* ------------------------------------------------------------------------
\* Initial states and specifications, one per component; the variables of
\* the other components stay at their idle values.
\* ------------------------------------------------------------------------
IdlePartition ==
    /\ class_variable = <<>>
    /\ stack = <<>>
    /\ result = NoResult

IdleTriangle ==
    /\ divisions = <<>>
    /\ fuzz_dict = <<>>

IdleRule ==
    /\ rule = NoRule
    /\ instance_membership = <<>>
    /\ matching_result = NoMatching
    /\ rule_list = <<>>
    /\ vote_result = NoVote

IdleMap ==
    /\ origin_fuzzy_variables = <<>>
    /\ dest_fuzzy_variables = <<>>
    /\ map_result = NoMapping

IdleVoting ==
    /\ all_classes = <<>>
    /\ agg_vote = NotCalled
    /\ max_match = NotCalled

IdleEntropy ==
    /\ triangle = <<>>
    /\ fe = NoEntropy

\* a non-empty numeric sample with its parallel class labels
InitPartition ==
    /\ variable \in SeqsUpTo(0..MaxVal, MaxLen) \ {<<>>}
    /\ class_variable \in [1..Len(variable) -> Classes]
    /\ stack = <<>>
    /\ result = NoResult
    /\ IdleTriangle
    /\ IdleRule
    /\ IdleMap
    /\ IdleVoting
    /\ IdleEntropy

NextPartition ==
    \/ FP_Call
    \/ FP_Search
    \/ FP_Threshold
    \/ FP_Reject
    \/ FP_Unzip
    \/ FP_Left
    \/ FP_Right
    \/ FP_Combine

SpecPartition == InitPartition /\ [][NextPartition]_vars

\* peaks in ascending order (trimf asserts a <= b <= c), values inside and
\* outside the range of the peaks
NonDecreasing(s) == \A i \in 1..(Len(s) - 1) : s[i] <= s[i + 1]

PeakLists == {s \in SeqsUpTo(0..MaxVal, MaxPeaks) : Len(s) >= 2 /\ NonDecreasing(s)}

InitTriangle ==
    /\ variable \in SeqsUpTo((0 - 1)..(MaxVal + 1), MaxArr) \ {<<>>}
    /\ \E peaks \in PeakLists : divisions = [i \in 1..Len(peaks) |-> <<i, peaks[i]>>]
    /\ fuzz_dict = <<>>
    /\ IdlePartition
    /\ IdleRule
    /\ IdleMap
    /\ IdleVoting
    /\ IdleEntropy

NextTriangle == GetFuzzyTriangle

SpecTriangle == InitTriangle /\ [][NextTriangle]_vars

\* one rule and one instance
InitMatching ==
    /\ rule \in Rules
    /\ instance_membership \in InstanceMemberships
    /\ matching_result = NoMatching
    /\ rule_list = <<>>
    /\ vote_result = NoVote
    /\ variable = <<>>
    /\ IdlePartition
    /\ IdleTriangle
    /\ IdleMap
    /\ IdleVoting
    /\ IdleEntropy

NextMatching == Matching

SpecMatching == InitMatching /\ [][NextMatching]_vars

\* weighted_vote is explored on rules with at most one condition and a
\* weight of one or two units, and on instances fuzzified over one feature
\* "x" whose degrees in "lo" and "hi" sum to MaxDeg (a triangular
\* partition); a condition on "y" is then a lookup of an absent feature
VoteRules == {r \in Rules : Len(r.antecedent) <= 1 /\ r.weight \in {1, 2}}

VoteMemberships ==
    {im \in InstanceMemberships :
        /\ DOMAIN im = {"x"}
        /\ DOMAIN im["x"] = Values
        /\ im["x"]["lo"] + im["x"]["hi"] = MaxDeg}

InitVote ==
    /\ rule_list \in SeqsUpTo(VoteRules, MaxRules) \ {<<>>}
    /\ instance_membership \in VoteMemberships
    /\ vote_result = NoVote
    /\ rule = NoRule
    /\ matching_result = NoMatching
    /\ variable = <<>>
    /\ IdlePartition
    /\ IdleTriangle
    /\ IdleMap
    /\ IdleVoting
    /\ IdleEntropy

NextVote == WeightedVote

SpecVote == InitVote /\ [][NextVote]_vars

\* a list of leaves
InitVoting ==
    /\ all_classes \in SeqsUpTo(Leaves, MaxLeaves)
    /\ agg_vote = NotCalled
    /\ max_match = NotCalled
    /\ variable = <<>>
    /\ IdlePartition
    /\ IdleTriangle
    /\ IdleRule
    /\ IdleMap
    /\ IdleEntropy

NextVoting ==
    \/ AggregatedVote
    \/ MaximumMatching

SpecVoting == InitVoting /\ [][NextVoting]_vars

\* a rule and two lists of fuzzy variables
InitMap ==
    /\ rule \in Rules
    /\ origin_fuzzy_variables \in FuzzyVariableLists
    /\ dest_fuzzy_variables \in FuzzyVariableLists
    /\ map_result = NoMapping
    /\ instance_membership = <<>>
    /\ matching_result = NoMatching
    /\ rule_list = <<>>
    /\ vote_result = NoVote
    /\ variable = <<>>
    /\ IdlePartition
    /\ IdleTriangle
    /\ IdleVoting
    /\ IdleEntropy

NextMap == MapRuleVariables

SpecMap == InitMap /\ [][NextMap]_vars

\* the degrees of a fuzzy set over a sample and the sample's class labels
InitEntropy ==
    /\ triangle \in SeqsUpTo(Degrees, MaxLen) \ {<<>>}
    /\ class_variable \in [1..Len(triangle) -> Classes]
    /\ fe = NoEntropy
    /\ variable = <<>>
    /\ stack = <<>>
    /\ result = NoResult
    /\ IdleTriangle
    /\ IdleRule
    /\ IdleMap
    /\ IdleVoting

NextEntropy == FuzzyEntropy

SpecEntropy == InitEntropy /\ [][NextEntropy]_vars

\* ------------------------------------------------------------------------
\* Properties of fuzzy_partitioning
\* ------------------------------------------------------------------------
StrictlyIncreasing(s) == \A i \in 1..(Len(s) - 1) : s[i] < s[i + 1]

Done == stack = <<>> /\ result /= NoResult

\* C1: for every non-empty sample the top-level call returns a list that is
\* sorted ascending, has no two equal breakpoints and starts with the sample
\* minimum.
C1_SortedUniqueFromMin ==
    Done => /\ result.status = "returned"
            /\ result.value /= <<>>
            /\ \A i \in 1..(Len(result.value) - 1) : result.value[i] <= result.value[i + 1]
            /\ \A i, j \in DOMAIN result.value : i /= j => result.value[i] /= result.value[j]
            /\ result.value[1] = ArrayMin(variable)

\* C2: the list returned by the top-level call is a valid triangle
\* specification: at least 2 entries, strictly increasing, also when all the
\* sample's values are equal.
C2_ValidTriangleSpec ==
    (Done /\ result.status = "returned") =>
        /\ Len(result.value) >= 2
        /\ StrictlyIncreasing(result.value)

\* ------------------------------------------------------------------------
\* Properties of get_fuzzy_triangle
\* ------------------------------------------------------------------------
Peaks == [i \in 1..Len(divisions) |-> Peak(divisions, i)]

RECURSIVE DegreeSum(_, _)
\* sum over the labels 1..l of the degrees of value position i
DegreeSum(i, l) == IF l = 0 THEN Zero ELSE FracAdd(DegreeSum(i, l - 1), fuzz_dict[l][i])

Computed == fuzz_dict /= <<>>

\* C3: with strictly increasing peaks, the degrees of a value within
\* [p0, pK] sum to exactly 1 over all labels, and every degree of every value
\* lies between 0 and 1.
C3_PartitionOfUnity ==
    (Computed /\ StrictlyIncreasing(Peaks)) =>
        \A i \in DOMAIN variable :
            /\ (Peaks[1] <= variable[i] /\ variable[i] <= Peaks[Len(Peaks)])
                  => FracEq(DegreeSum(i, Len(Peaks)), One)
            /\ \A l \in DOMAIN fuzz_dict :
                  FracLeq(Zero, fuzz_dict[l][i]) /\ FracLeq(fuzz_dict[l][i], One)

\* a value strictly between two peaks (fractional degrees), three labels
C3_Witness ==
    /\ Computed
    /\ StrictlyIncreasing(Peaks)
    /\ Len(Peaks) >= 3
    /\ \E i \in DOMAIN variable :
          /\ Peaks[1] < variable[i] /\ variable[i] < Peaks[2]
          /\ ~FracEq(fuzz_dict[1][i], Zero) /\ ~FracEq(fuzz_dict[1][i], One)
          /\ FracEq(DegreeSum(i, Len(Peaks)), One)

Matched == matching_result /= NoMatching

AllPresent(r, im) == \A i \in DOMAIN r.antecedent : HasKey(im, r.antecedent[i])

DegreeOf(im, pair) == im[pair[1]][pair[2]]

\* C5: if some pair of the antecedent names a feature or a value that
\* instance_membership does not have, matching returns exactly 0 and raises
\* nothing, whatever the degrees of the other pairs.
C5_FailsClosed ==
    (Matched /\ ~AllPresent(rule, instance_membership)) =>
        matching_result = [status |-> "ok", value |-> 0]

\* a present pair of positive degree next to a pair whose value is absent
\* from a feature the instance has
C5_Witness ==
    /\ Matched
    /\ \E i, j \in DOMAIN rule.antecedent :
          /\ HasKey(instance_membership, rule.antecedent[i])
          /\ DegreeOf(instance_membership, rule.antecedent[i]) > 0
          /\ rule.antecedent[j][1] \in DOMAIN instance_membership
          /\ ~HasKey(instance_membership, rule.antecedent[j])
    /\ matching_result = [status |-> "ok", value |-> 0]

\* C6: with a non-empty antecedent whose pairs are all present, matching
\* (default t_norm) returns the minimum of the pairs' degrees.
C6_MinimumDegree ==
    (Matched /\ rule.antecedent /= <<>> /\ AllPresent(rule, instance_membership)) =>
        /\ matching_result.status = "ok"
        /\ \A i \in DOMAIN rule.antecedent :
              matching_result.value <= DegreeOf(instance_membership, rule.antecedent[i])
        /\ \E i \in DOMAIN rule.antecedent :
              matching_result.value = DegreeOf(instance_membership, rule.antecedent[i])

\* two present pairs, the second of strictly smaller degree, which is returned
C6_Witness ==
    /\ Matched
    /\ Len(rule.antecedent) = 2
    /\ AllPresent(rule, instance_membership)
    /\ DegreeOf(instance_membership, rule.antecedent[2])
          < DegreeOf(instance_membership, rule.antecedent[1])
    /\ matching_result =
          [status |-> "ok", value |-> DegreeOf(instance_membership, rule.antecedent[2])]

Voted == vote_result /= NoVote

RECURSIVE Score(_, _)
\* sum of matching * weight over the first n rules whose consequent is c
Score(c, n) ==
    IF n = 0 THEN 0
    ELSE Score(c, n - 1)
         + (IF rule_list[n].consequent = c
            THEN matching(rule_list[n], instance_membership).value * rule_list[n].weight
            ELSE 0)

Total(c) == Score(c, Len(rule_list))

Consequents == {rule_list[i].consequent : i \in DOMAIN rule_list}

FirstRule(c) == SetMin({i \in DOMAIN rule_list : rule_list[i].consequent = c})

\* the returned consequent has a maximal sum and, among the consequents of
\* maximal sum, the earliest first rule
MaximalFirstSeen ==
    /\ vote_result.status = "ok"
    /\ vote_result.value \in Consequents
    /\ \A c \in Consequents :
          /\ Total(c) <= Total(vote_result.value)
          /\ Total(c) = Total(vote_result.value)
                => FirstRule(vote_result.value) <= FirstRule(c)

\* C7 as stated: for every non-empty rule_list, weighted_vote returns a
\* consequent of maximal accumulated matching * weight, the first seen of
\* the tied ones.
C7_WeightedVote == (Voted /\ rule_list /= <<>>) => MaximalFirstSeen

NonEmptyAntecedents == \A i \in DOMAIN rule_list : rule_list[i].antecedent /= <<>>

\* C7 amended: the same, for rule lists whose rules all have a non-empty
\* antecedent (matching raises ValueError on an empty antecedent).
C7_WeightedVoteNonEmptyAntecedents ==
    (Voted /\ rule_list /= <<>> /\ NonEmptyAntecedents) => MaximalFirstSeen

\* three rules: the consequents of the first two tie at a positive maximum,
\* the third adds to one of the sums, and the first rule's consequent wins
C7_Witness ==
    /\ Voted
    /\ NonEmptyAntecedents
    /\ Len(rule_list) = 3
    /\ rule_list[1].consequent /= rule_list[2].consequent
    /\ Total(rule_list[1].consequent) = Total(rule_list[2].consequent)
    /\ Total(rule_list[1].consequent) > 0
    /\ matching(rule_list[3], instance_membership).value * rule_list[3].weight > 0
    /\ vote_result = [status |-> "ok", value |-> rule_list[1].consequent]

\* ------------------------------------------------------------------------
\* Properties of _aggregated_vote and _maximum_matching
\* ------------------------------------------------------------------------
LeafKeys == UNION {DOMAIN all_classes[i][1] : i \in DOMAIN all_classes}

\* class_weight_mapping[key] * leaf_activation_weight of leaf i
Product(i, key) == all_classes[i][1][key] * all_classes[i][2]

LeavesWith(key) == {i \in DOMAIN all_classes : key \in DOMAIN all_classes[i][1]}

RECURSIVE SumOfProducts(_, _)
SumOfProducts(key, S) ==
    IF S = {} THEN 0
    ELSE LET i == CHOOSE i \in S : TRUE
         IN Product(i, key) + SumOfProducts(key, S \ {i})

\* C8: the keys of the result of _aggregated_vote are exactly the class keys
\* of the leaves, and each value is the sum of the products of the leaves
\* that contain the key.
C8_AggregatedVote ==
    agg_vote.done =>
        /\ DOMAIN agg_vote.dict = LeafKeys
        /\ \A key \in LeafKeys :
              agg_vote.dict[key] = SumOfProducts(key, LeavesWith(key))

\* two leaves, a key in both with non-zero products and a key in only one
C8_Witness ==
    /\ agg_vote.done
    /\ Len(all_classes) = 2
    /\ \E key \in LeafKeys :
          /\ LeavesWith(key) = {1, 2}
          /\ Product(1, key) /= 0 /\ Product(2, key) /= 0
          /\ agg_vote.dict[key] = Product(1, key) + Product(2, key)
    /\ \E key \in LeafKeys : Cardinality(LeavesWith(key)) = 1

\* C9 as stated: each value of the result of _maximum_matching is the
\* maximum of the products of the leaves that contain the key, negative
\* products included.
C9_MaximumOfProducts ==
    max_match.done =>
        \A key \in LeafKeys :
            /\ key \in DOMAIN max_match.dict
            /\ \A i \in LeavesWith(key) : Product(i, key) <= max_match.dict[key]
            /\ \E i \in LeavesWith(key) : Product(i, key) = max_match.dict[key]

\* C9 amended: each value is the larger of 0 and the maximum of the
\* products (the maximum itself unless every product of the key is negative).
C9_MaximumOfProductsAndZero ==
    max_match.done =>
        \A key \in LeafKeys :
            /\ key \in DOMAIN max_match.dict
            /\ \A i \in LeavesWith(key) : Product(i, key) <= max_match.dict[key]
            /\ 0 <= max_match.dict[key]
            /\ \/ max_match.dict[key] = 0
               \/ \E i \in LeavesWith(key) : Product(i, key) = max_match.dict[key]

\* a key whose two products are positive, and a key whose products are all
\* negative and whose value is 0
C9_Witness ==
    /\ max_match.done
    /\ \E key \in LeafKeys :
          /\ LeavesWith(key) = {1, 2}
          /\ Product(1, key) > 0 /\ Product(2, key) > 0
    /\ \E key \in LeafKeys :
          /\ \A i \in LeavesWith(key) : Product(i, key) < 0
          /\ max_match.dict[key] = 0

\* ------------------------------------------------------------------------
\* Properties of Rule.map_rule_variables
\* ------------------------------------------------------------------------
Mapped == map_result /= NoMapping

\* C10: the universes error is raised exactly when the name sets of the
\* origin and destination fuzzy variables differ, for every rule, and then
\* no Rule is produced.
C10_UniversesError ==
    Mapped =>
        /\ (map_result.status = "ValueError_universes")
              <=> (Names(origin_fuzzy_variables) /= Names(dest_fuzzy_variables))
        /\ (map_result.status = "ValueError_universes") => map_result.rule = NoRule

\* differing name sets, and a rule whose antecedent names only features and
\* sets that both sides have
C10_Witness ==
    /\ Mapped
    /\ Names(origin_fuzzy_variables) /= Names(dest_fuzzy_variables)
    /\ rule.antecedent /= <<>>
    /\ \A i \in DOMAIN rule.antecedent :
          /\ rule.antecedent[i][1] \in Names(origin_fuzzy_variables) \cap Names(dest_fuzzy_variables)
          /\ PairStatus(rule.antecedent[i], DictOf(origin_fuzzy_variables),
                        DictOf(dest_fuzzy_variables)) = "ok"
    /\ map_result = MapError("ValueError_universes")

\* every pair of the antecedent names a fuzzy set of an origin variable
NamesOriginSets ==
    \A i \in DOMAIN rule.antecedent :
        /\ rule.antecedent[i][1] \in Names(origin_fuzzy_variables)
        /\ HasSet(DictOf(origin_fuzzy_variables)[rule.antecedent[i][1]], rule.antecedent[i][2])

\* every feature of the antecedent has at least one destination fuzzy set
DestSetsExist ==
    \A i \in DOMAIN rule.antecedent :
        rule.antecedent[i][1] \in Names(dest_fuzzy_variables)
            => DictOf(dest_fuzzy_variables)[rule.antecedent[i][1]] /= <<>>

\* res is a Rule with r's consequent and weight and r's features in order,
\* each value naming a destination set of the feature whose intersection
\* with the origin set is maximal among the feature's destination sets
MappedToBestSets(res, r) ==
    /\ res.status = "ok"
    /\ res.rule.consequent = r.consequent
    /\ res.rule.weight = r.weight
    /\ Len(res.rule.antecedent) = Len(r.antecedent)
    /\ \A i \in DOMAIN r.antecedent :
          LET feat      == r.antecedent[i][1]
              origin_fs == SetNamed(DictOf(origin_fuzzy_variables)[feat], r.antecedent[i][2])
              dest_feat == DictOf(dest_fuzzy_variables)[feat]
          IN /\ res.rule.antecedent[i][1] = feat
             /\ \E k \in DOMAIN dest_feat :
                   /\ dest_feat[k].name = res.rule.antecedent[i][2]
                   /\ \A j \in DOMAIN dest_feat :
                         intersection(dest_feat[j], origin_fs)
                            <= intersection(dest_feat[k], origin_fs)

\* C11 as stated: with equal name sets and every antecedent pair naming an
\* existing origin fuzzy set, the call returns a new Rule with the same
\* consequent, weight and features, each value the name of a destination set
\* of maximal intersection, and leaves the input rule unchanged.
C11_MapsToBestSets ==
    [][(map_result = NoMapping /\ map_result' /= NoMapping
        /\ Names(origin_fuzzy_variables) = Names(dest_fuzzy_variables)
        /\ NamesOriginSets)
       => (MappedToBestSets(map_result', rule) /\ rule' = rule)]_vars

\* C11 amended: the same, when moreover every feature of the antecedent has
\* at least one destination fuzzy set (max of an empty collection raises
\* ValueError).
C11_MapsToBestSetsWhenDestSetsExist ==
    [][(map_result = NoMapping /\ map_result' /= NoMapping
        /\ Names(origin_fuzzy_variables) = Names(dest_fuzzy_variables)
        /\ NamesOriginSets /\ DestSetsExist)
       => (MappedToBestSets(map_result', rule) /\ rule' = rule)]_vars

\* a two-pair antecedent mapped to a rule with another antecedent, one value
\* of which names the second of its feature's destination sets
C11_Witness ==
    /\ Mapped
    /\ Names(origin_fuzzy_variables) = Names(dest_fuzzy_variables)
    /\ NamesOriginSets
    /\ Len(rule.antecedent) = 2
    /\ map_result.status = "ok"
    /\ map_result.rule.antecedent /= rule.antecedent
    /\ map_result.rule.weight = rule.weight /\ rule.weight > 0
    /\ \E i \in DOMAIN rule.antecedent :
          LET dest_feat == DictOf(dest_fuzzy_variables)[rule.antecedent[i][1]]
          IN Len(dest_feat) = 2 /\ map_result.rule.antecedent[i][2] = dest_feat[2].name

\* ------------------------------------------------------------------------
\* Properties of fuzzy_entropy
\* ------------------------------------------------------------------------
EntropyComputed == fe /= NoEntropy

ElementsOf(v) == {i \in DOMAIN triangle : class_variable[i] = v}

RECURSIVE DegreesOver(_)
\* the sum of the degrees at the positions S
DegreesOver(S) ==
    IF S = {} THEN 0
    ELSE LET i == CHOOSE i \in S : TRUE IN triangle[i] + DegreesOver(S \ {i})

\* the fuzzy cardinality of class v in the fuzzy set
Cardinal(v) == DegreesOver(ElementsOf(v))

\* the classes of positive fuzzy cardinality
PositiveClasses == {v \in Range(class_variable) : Cardinal(v) > 0}

\* C12: fuzzy_entropy is 0 when at most one class has positive fuzzy
\* cardinality, and 1 for a two-class set whose two classes have equal
\* positive fuzzy cardinalities.
C12_EntropyZeroAndOne ==
    EntropyComputed =>
        /\ Cardinality(PositiveClasses) <= 1 => (fe.exact /\ FracEq(fe.value, Zero))
        /\ (/\ Cardinality(PositiveClasses) = 2
            /\ \A v, w \in PositiveClasses : Cardinal(v) = Cardinal(w))
              => (fe.exact /\ FracEq(fe.value, One))

\* two classes of equal fuzzy cardinality with different numbers of elements
C12_Witness ==
    /\ EntropyComputed
    /\ Cardinality(PositiveClasses) = 2
    /\ Cardinal("A") = Cardinal("B")
    /\ Cardinality(ElementsOf("A")) /= Cardinality(ElementsOf("B"))
    /\ fe.exact
    /\ FracEq(fe.value, One)

\* ------------------------------------------------------------------------
\* Termination of fuzzy_partitioning
\* ------------------------------------------------------------------------
\* an upper bound of the steps of a call on a sample of n elements
WorkOfCall(n) == 9 * n - 6

\* the same for a side of an accepted split: only recursed on if n > 1
WorkOfSide(n) == IF n > 1 THEN WorkOfCall(n) ELSE 0

\* the steps frame f still takes by itself, not counting a call it waits for
WorkOfFrame(f) ==
    CASE f.pc = "search"    -> WorkOfCall(Len(f.variable))
      [] f.pc = "threshold" -> WorkOfCall(Len(f.variable)) - 1
      [] f.pc = "reject"    -> 1
      [] f.pc = "accept"    -> 4 + WorkOfSide(Len(f.left)) + WorkOfSide(Len(f.right))
      [] f.pc = "left"      -> 3 + WorkOfSide(Len(f.left)) + WorkOfSide(Len(f.right))
      [] f.pc = "waitleft"  -> 2 + WorkOfSide(Len(f.right))
      [] f.pc = "right"     -> 2 + WorkOfSide(Len(f.right))
      [] f.pc = "waitright" -> 1
      [] f.pc = "combine"   -> 1

RECURSIVE WorkOfStack(_)
WorkOfStack(n) == IF n = 0 THEN 0 ELSE WorkOfStack(n - 1) + WorkOfFrame(stack[n])

\* the steps still to take: a natural number that every step decreases
Work ==
    IF stack = <<>>
    THEN (IF result = NoResult THEN WorkOfCall(Len(variable)) + 1 ELSE 0)
    ELSE WorkOfStack(Len(stack))

Count(v, P(_)) == Cardinality({i \in DOMAIN v : P(v[i])})

\* frame k is a recursive call of frame k - 1 on one side of its split
RecursiveCallOK(k) ==
    LET caller == stack[k - 1]
        f      == stack[k]
    IN /\ caller.pc \in {"waitleft", "waitright"}
       /\ Len(f.variable) >= 2
       /\ Len(f.variable) < Len(caller.variable)
       /\ caller.pc = "waitleft" =>
             /\ f.min_point = caller.min_point
             /\ \A i \in DOMAIN f.variable : f.variable[i] <= caller.best_point
             /\ Len(f.variable) = Count(caller.variable, LAMBDA p : p <= caller.best_point)
       /\ caller.pc = "waitright" =>
             /\ f.min_point = caller.best_point
             /\ \A i \in DOMAIN f.variable : f.variable[i] > caller.best_point
             /\ Len(f.variable) = Count(caller.variable, LAMBDA p : p > caller.best_point)

\* frame f has accepted a split only at a candidate point
AcceptedAtCandidate(f) ==
    f.pc \in {"accept", "left", "waitleft", "right", "waitright", "combine"} =>
        /\ f.has_best
        /\ f.best_point \in Range(f.variable)
        /\ f.best_point /= f.min_point
        /\ f.best_point /= f.max_point

RecursionOK ==
    /\ Len(stack) <= Len(variable)
    /\ \A k \in DOMAIN stack : AcceptedAtCandidate(stack[k])
    /\ \A k \in 2..Len(stack) : RecursiveCallOK(k)
    /\ stack /= <<>> => ENABLED NextPartition
    /\ Done => result.status = "returned"
    /\ Work >= 0

\* C13: a top-level call on at least 2 elements terminates: a split is only
\* accepted at a candidate point, every recursive call gets a sample of at
\* least 2 elements that is strictly smaller than its caller's (the elements
\* <= best_point with min_point unchanged, or the elements > best_point with
\* min_point = best_point), the depth never exceeds the sample size, a call
\* in progress can always take a step, and every step decreases the natural
\* number Work, so that no run is infinite.
C13_Terminates ==
    /\ [](Len(variable) >= 2 => RecursionOK)
    /\ [][Len(variable) >= 2 => Work' < Work]_vars

\* a recursive call made by a recursive call is about to return
C13_Witness ==
    /\ Len(variable) >= 2
    /\ Len(stack) = 3
    /\ Top.pc \in {"reject", "combine"}

\* ------------------------------------------------------------------------
\* Coverage of the sample's domain by the returned breakpoints
\* ------------------------------------------------------------------------
\* C14: the last breakpoint the top-level call returns is the maximum value
\* of the sample, whatever splits were accepted and rejected.
C14_LastIsMaximum ==
    (Done /\ result.status = "returned") =>
        /\ result.value /= <<>>
        /\ result.value[Len(result.value)] = ArrayMax(variable)

====
